---- MODULE Spec2Model ----
(***************************************************************************)
(* The list controller (Index) of the library client: the displayed book   *)
(* collection, the offline flag, the cache snapshot kept in AsyncStorage   *)
(* and the asynchronous operations that change them (live fetch, cache     *)
(* read at mount, network listener and one-shot query, list mutations).    *)
(* Every await of the source is a suspension point: the code before it and *)
(* the code after it are separate actions, and everything else may run in  *)
(* between.  A call to a React state setter is modelled by the value the   *)
(* setter is given (the re-render follows the handler).                    *)
(***************************************************************************)
EXTENDS Integers, Sequences, FiniteSets, TLC

VARIABLES
  books,            \* useState<Book[]>([])
  loading,          \* useState(true)
  initialLoading,   \* useState(true)
  status,           \* useState<string | null>(null)
  availableThemes,  \* useState<string[]>([])
  offlineMode,      \* useState(false)
  lastSync,         \* useState<number | null>(null)
  offlineRef,       \* useRef(false)
  hasLocalCacheRef, \* useRef(false)
  screen,           \* "focused" or "unmounted"
  canceled,         \* the cache-load effect's `canceled`
  mounted,          \* the current network effect's `mounted`
  subscribed,       \* the network subscription is active
  fetches,          \* the loadBooks calls, in the order they were issued
  cacheRead,        \* the mount-time loadBooksCache call
  netQuery,         \* the one-shot getNetworkStateAsync of the current effect
  staleQueries,     \* one-shot queries of effects already cleaned up
  mutations,        \* the list mutations (toggle read, toggle favorite, rate)
  storage,          \* the payload under BOOKS_CACHE_KEY
  now,              \* Date.now()
  alerts,           \* the Alert.alert calls so far: how many, and the last message
  noticeCount,      \* offline notices set since the offline flag last went from true to false
  form,             \* the BookForm of NewBook or EditBook: which screen, rating, submitting
  detail,           \* BookDetails: its `book` state
  sent,             \* the requests NewBook, EditBook and BookDetails have issued
  http              \* a call of the client's request(): the response and how it settles

vars == <<books, loading, initialLoading, status, availableThemes, offlineMode,
          lastSync, offlineRef, hasLocalCacheRef, screen, canceled, mounted,
          subscribed, fetches, cacheRead, netQuery, staleQueries, mutations,
          storage, now, alerts, noticeCount, form, detail, sent, http>>

\* the state of the list screen, and the state of the screens pushed over it
listVars == <<books, loading, initialLoading, status, availableThemes, offlineMode,
              lastSync, offlineRef, hasLocalCacheRef, screen, canceled, mounted,
              subscribed, fetches, cacheRead, netQuery, staleQueries, mutations,
              noticeCount>>
screenVars == <<form, detail, sent>>

(***************************************************************************)
(* Bounds                                                                  *)
(***************************************************************************)
MaxCalls == 3        \* loadBooks calls and list mutations in one run
MaxMutations == 1    \* list mutations in one run
MaxRequests == 2     \* requests issued by NewBook, EditBook and BookDetails in one run

(***************************************************************************)
(* Data                                                                    *)
(***************************************************************************)
NoRating == -1       \* rating: null
NoTheme == 0         \* theme: undefined; themes 1, 2, ... are in fr locale order
Null == 0            \* lastSync: null (a timestamp is positive)

Bk(i, r, f, g, t) == [id |-> i, read |-> r, favorite |-> f, rating |-> g, theme |-> t]

ListA == << Bk(1, FALSE, FALSE, NoRating, 2), Bk(2, TRUE, FALSE, 4, 1) >>
ListB == << Bk(2, TRUE, FALSE, 4, 1) >>
ListC == << Bk(1, FALSE, FALSE, NoRating, 2) >>

\* what the catalog service may answer to GET /books
Responses == {ListA, ListB}

\* the messages of the errors request() throws (accents dropped)
ErrorMessages == {"La requete a echoue avec le statut 500", "Network request failed"}

OfflineNotice == "Connexion indisponible. Affichage des donnees locales."

\* the payload a previous session may have left under BOOKS_CACHE_KEY
StoredPayloads ==
  { [kind |-> "absent",  books |-> <<>>,  savedAt |-> Null],
    [kind |-> "ok",      books |-> ListC, savedAt |-> 1] }

\* Date.now() when the screen mounts: later than any stored savedAt
StartTime == 2

\* every kind of payload getItem may find: none, a valid one, text that is not
\* JSON, JSON without a books array, and a books array without a numeric savedAt
AllStoredPayloads ==
  StoredPayloads \cup
  { [kind |-> "garbage", books |-> <<>>,  savedAt |-> Null],
    [kind |-> "nobooks", books |-> <<>>,  savedAt |-> 1],
    [kind |-> "nostamp", books |-> ListC, savedAt |-> Null] }

(***************************************************************************)
(* Local Cache Store                                                       *)
(***************************************************************************)
\* loadBooksCache: raw is what getItem finds, readOk whether getItem resolves,
\* t is Date.now(); the result is null (found = FALSE) or {books, savedAt}
NullCache == [found |-> FALSE, books |-> <<>>, savedAt |-> Null]

\* variant: a payload without a numeric savedAt is treated as invalid
loadBooksCache_StrictStamp(raw, readOk, t) ==
  IF readOk /\ raw.kind = "ok"
  THEN [found |-> TRUE, books |-> raw.books, savedAt |-> raw.savedAt]
  ELSE [found |-> FALSE, books |-> <<>>, savedAt |-> 0]

loadBooksCache(raw, readOk, t) ==
  IF ~readOk THEN NullCache                              \* catch
  ELSE IF raw.kind = "absent" THEN NullCache             \* !raw
  ELSE IF raw.kind = "garbage" THEN NullCache            \* JSON.parse throws
  ELSE IF raw.kind = "nobooks" THEN NullCache            \* !Array.isArray(parsed.books)
  ELSE [found |-> TRUE, books |-> raw.books,
        savedAt |-> IF raw.kind = "ok" THEN raw.savedAt ELSE t]

\* variant: the payload is stamped later than the timestamp saveBooksCache returns
CachePayload_StampedLater(data, t) == [kind |-> "ok", books |-> data, savedAt |-> t + 1]
\* the payload saveBooksCache writes for a collection at time t
CachePayload(data, t) == [kind |-> "ok", books |-> data, savedAt |-> t]

\* AsyncStorage.setItem of payload: the write lands or fails (and is only logged)
StorageAfterWrite(old, payload, writeOk) == IF writeOk THEN payload ELSE old

(***************************************************************************)
(* Themes                                                                  *)
(***************************************************************************)
Range(s) == {s[i] : i \in DOMAIN s}

RECURSIVE SortThemes(_)
SortThemes(S) ==
  IF S = {} THEN <<>>
  ELSE LET m == CHOOSE x \in S : \A y \in S : x <= y
       IN <<m>> \o SortThemes(S \ {m})

ThemesOf(data) == {data[i].theme : i \in DOMAIN data} \ {NoTheme}

\* variant: the list is derived from the collection alone
syncThemesFromData_Rederives(prev, data) == SortThemes(ThemesOf(data))
\* the updater syncThemesFromData passes to setAvailableThemes
syncThemesFromData(prev, data) ==
  LET combined == Range(prev) \cup ThemesOf(data)
      next == SortThemes(combined)
  IN IF Len(next) = Len(prev) /\ \A i \in DOMAIN next : next[i] = prev[i]
     THEN prev ELSE next

(***************************************************************************)
(* Decisions of the controller                                             *)
(***************************************************************************)
\* isOnline, from the NetworkState the listener or the one-shot query gets;
\* isConnected and isInternetReachable are true, false or undefined
Tri == {"true", "false", "undefined"}
NetStates == [isConnected : Tri, isInternetReachable : Tri]
\* variant: reachability must be reported true
IsOnline_RequiresReachable(state) ==
  state.isConnected = "true" /\ state.isInternetReachable = "true"
IsOnline(state) == state.isConnected = "true" /\ state.isInternetReachable # "false"

\* Each decision is preceded by a variant that decides differently; the
\* properties below are sensitive to the difference.

\* variant: a failed fetch never takes the offline branch
FailureGoesOffline_NeverOffline(hasCache) == FALSE
\* loadBooks' catch: a failed fetch takes the offline branch (not the alert)
FailureGoesOffline(hasCache) == hasCache

\* variant: the notice is set on every failure with a cache
SetsOfflineNotice_LevelTriggered(hasCache, offRef) == hasCache
\* loadBooks' catch: the offline notice is set
SetsOfflineNotice(hasCache, offRef) == hasCache /\ ~offRef

\* variant: the effect does not look at `canceled`
AppliesCache_IgnoresCanceled(cached, isCanceled) == cached.found
\* the cache-load effect: the result of loadBooksCache is applied
AppliesCache(cached, isCanceled) == cached.found /\ ~isCanceled

\* variant: every "online" report calls loadBooks
RefetchOnOnline_EveryReport(isMounted, wasOffline) == isMounted
\* the listener: an "online" report calls loadBooks
RefetchOnOnline(isMounted, wasOffline) == isMounted /\ wasOffline

\* variant: the listener sets the flag only when a cache is known
ListenerSetsOffline_OnlyWithCache(online, hasCache) == ~online /\ hasCache
\* the listener: a report sets the offline flag
ListenerSetsOffline(online, hasCache) == ~online

\* variant: the answer is used whether or not the effect was cleaned up
QuerySetsOffline_IgnoresMounted(isMounted, online, hasCache) == ~online /\ hasCache
\* the one-shot query: its answer sets the offline flag
QuerySetsOffline(isMounted, online, hasCache) == isMounted /\ ~online /\ hasCache

\* offlineRef after the render that follows a handler: the effect of lines
\* 169-171 copies offlineMode into the ref when offlineMode changed
RefAfterRender(oldMode, newMode, assigned) ==
  IF newMode # oldMode THEN newMode ELSE assigned

\* a call of loadBooks that awaits getBooks
NewFetch == [pc |-> "getBooks", data |-> <<>>, savedAt |-> Null]
\* a call that has returned holds nothing any more
Finished(pc) == [pc |-> pc, data |-> <<>>, savedAt |-> Null]
\* the calls issued so far
Calls == Len(fetches) + Len(mutations)

\* n calls of loadBooks appended to the calls so far
Issue(fs, n) == IF n = 0 THEN fs ELSE IF n = 1 THEN Append(fs, NewFetch)
                ELSE Append(Append(fs, NewFetch), NewFetch)

\* no BookForm is mounted; BookDetails is not open or its book is still null
NoBook == Bk(0, FALSE, FALSE, NoRating, NoTheme)
NoForm ==
  [screen |-> "none", rating |-> 0, submitting |-> FALSE, name |-> <<>>,
   author |-> <<>>, yearText |-> <<>>, errors |-> {}]
NoDetail == [loaded |-> FALSE, book |-> NoBook]

\* no call of request() is being followed
NoCall ==
  [pc |-> "idle", status |-> 0, body |-> [parses |-> FALSE, value |-> [null |-> TRUE]],
   expectsBody |-> TRUE,
   result |-> [outcome |-> "", error |-> "", message |-> "", value |-> [null |-> TRUE],
               bodyReads |-> 0]]

(***************************************************************************)
(* Initial state: the screen has mounted focused and its effects have run. *)
(* The cache read, the first loadBooks and the one-shot network query are  *)
(* in flight and the network listener is subscribed.                       *)
(***************************************************************************)
Init ==
  /\ books = <<>>
  /\ loading = TRUE
  /\ initialLoading = TRUE
  /\ status = "null"
  /\ availableThemes = <<>>
  /\ offlineMode = FALSE
  /\ lastSync = Null
  /\ offlineRef = FALSE
  /\ hasLocalCacheRef = FALSE
  /\ screen = "focused"
  /\ canceled = FALSE
  /\ mounted = TRUE
  /\ subscribed = TRUE
  /\ fetches = <<NewFetch>>
  /\ cacheRead = [pc |-> "getItem", result |-> NullCache]
  /\ netQuery = "pending"
  /\ staleQueries = 0
  /\ mutations = <<>>
  /\ storage \in StoredPayloads
  /\ now = StartTime
  /\ alerts = [count |-> 0, last |-> ""]
  /\ noticeCount = 0
  /\ form = NoForm
  /\ detail = NoDetail
  /\ sent = <<>>
  /\ http = NoCall

(***************************************************************************)
(* loadBooks                                                               *)
(***************************************************************************)
\* getBooks resolves with data: lines 116-118, up to the await of saveBooksCache
GetBooksOk(f, data) ==
  /\ UNCHANGED <<screenVars, http>>
  /\ f \in DOMAIN fetches
  /\ fetches[f].pc = "getBooks"
  /\ books' = data
  /\ availableThemes' = syncThemesFromData(availableThemes, data)
  /\ fetches' = [fetches EXCEPT ![f] = [pc |-> "save", data |-> data, savedAt |-> now]]
  /\ now' = now + 1
  /\ UNCHANGED <<loading, initialLoading, status, offlineMode, lastSync, offlineRef,
                 hasLocalCacheRef, screen, canceled, mounted, subscribed, cacheRead,
                 netQuery, staleQueries, mutations, storage, alerts, noticeCount>>

\* variant: saveBooksCache rejects when the write fails, and loadBooks' catch runs
SaveResolved_Rejects(f, writeOk) ==
  /\ UNCHANGED <<screenVars, http>>
  /\ f \in DOMAIN fetches
  /\ fetches[f].pc = "save"
  /\ IF writeOk
     THEN /\ storage' = CachePayload(fetches[f].data, fetches[f].savedAt)
          /\ lastSync' = fetches[f].savedAt
          /\ hasLocalCacheRef' = TRUE
          /\ offlineMode' = FALSE
          /\ offlineRef' = FALSE
          /\ noticeCount' = IF offlineRef THEN 0 ELSE noticeCount
          /\ fetches' = [fetches EXCEPT ![f] = Finished("done")]
          /\ UNCHANGED <<status, alerts>>
     ELSE /\ IF hasLocalCacheRef
             THEN /\ status' = IF offlineRef THEN status ELSE OfflineNotice
                  /\ noticeCount' = IF offlineRef THEN noticeCount ELSE noticeCount + 1
                  /\ offlineMode' = TRUE
                  /\ offlineRef' = TRUE
                  /\ alerts' = alerts
             ELSE /\ alerts' = [count |-> alerts.count + 1, last |-> "setItem"]
                  /\ UNCHANGED <<status, noticeCount, offlineMode, offlineRef>>
          /\ fetches' = [fetches EXCEPT ![f] = Finished("failed")]
          /\ UNCHANGED <<storage, lastSync, hasLocalCacheRef>>
  /\ loading' = FALSE
  /\ initialLoading' = FALSE
  /\ UNCHANGED <<books, availableThemes, screen, canceled, mounted, subscribed,
                 cacheRead, netQuery, staleQueries, mutations, now>>

\* saveBooksCache resolves (the write landed or failed): lines 119-122 and finally
SaveResolved(f, writeOk) ==
  /\ UNCHANGED <<screenVars, http>>
  /\ f \in DOMAIN fetches
  /\ fetches[f].pc = "save"
  /\ storage' = StorageAfterWrite(storage,
                   CachePayload(fetches[f].data, fetches[f].savedAt), writeOk)
  /\ lastSync' = fetches[f].savedAt
  /\ hasLocalCacheRef' = TRUE
  /\ offlineMode' = FALSE
  /\ offlineRef' = RefAfterRender(offlineMode, FALSE, FALSE)
  /\ noticeCount' = IF offlineRef THEN 0 ELSE noticeCount
  /\ loading' = FALSE
  /\ initialLoading' = FALSE
  /\ fetches' = [fetches EXCEPT ![f] = Finished("done")]
  /\ UNCHANGED <<books, status, availableThemes, screen, canceled, mounted, subscribed,
                 cacheRead, netQuery, staleQueries, mutations, now, alerts>>

\* getBooks rejects with an Error carrying msg: catch and finally
GetBooksFailed(f, msg) ==
  /\ UNCHANGED <<screenVars, http>>
  /\ f \in DOMAIN fetches
  /\ fetches[f].pc = "getBooks"
  /\ IF FailureGoesOffline(hasLocalCacheRef)
     THEN /\ status' = IF SetsOfflineNotice(hasLocalCacheRef, offlineRef)
                       THEN OfflineNotice ELSE status
          /\ noticeCount' = IF SetsOfflineNotice(hasLocalCacheRef, offlineRef)
                            THEN noticeCount + 1 ELSE noticeCount
          /\ offlineMode' = TRUE
          /\ offlineRef' = RefAfterRender(offlineMode, TRUE, TRUE)
          /\ alerts' = alerts
     ELSE /\ alerts' = [count |-> alerts.count + 1, last |-> msg]
          /\ UNCHANGED <<status, noticeCount, offlineMode, offlineRef>>
  /\ loading' = FALSE
  /\ initialLoading' = FALSE
  /\ fetches' = [fetches EXCEPT ![f] = Finished("failed")]
  /\ UNCHANGED <<books, availableThemes, lastSync, hasLocalCacheRef, screen, canceled,
                 mounted, subscribed, cacheRead, netQuery, staleQueries, mutations,
                 storage, now>>

(***************************************************************************)
(* The cache-load effect                                                   *)
(***************************************************************************)
\* AsyncStorage.getItem reads the payload (or fails) and loadBooksCache builds
\* its result; the promise has not resolved yet
CacheItemRead(readOk) ==
  /\ UNCHANGED <<screenVars, http>>
  /\ cacheRead.pc = "getItem"
  /\ cacheRead' = [pc |-> "resolving", result |-> loadBooksCache(storage, readOk, now)]
  /\ UNCHANGED <<books, loading, initialLoading, status, availableThemes, offlineMode,
                 lastSync, offlineRef, hasLocalCacheRef, screen, canceled, mounted,
                 subscribed, fetches, netQuery, staleQueries, mutations, storage, now,
                 alerts, noticeCount>>

\* loadBooksCache resolves: lines 145-153
CacheLoaded ==
  /\ UNCHANGED <<screenVars, http>>
  /\ cacheRead.pc = "resolving"
  /\ cacheRead' = [cacheRead EXCEPT !.pc = "done"]
  /\ IF AppliesCache(cacheRead.result, canceled)
     THEN /\ hasLocalCacheRef' = TRUE
          /\ books' = cacheRead.result.books
          /\ availableThemes' = syncThemesFromData(availableThemes, cacheRead.result.books)
          /\ lastSync' = cacheRead.result.savedAt
          /\ loading' = FALSE
          /\ initialLoading' = FALSE
     ELSE UNCHANGED <<hasLocalCacheRef, books, availableThemes, lastSync, loading,
                      initialLoading>>
  /\ UNCHANGED <<status, offlineMode, offlineRef, screen, canceled, mounted, subscribed,
                 fetches, netQuery, staleQueries, mutations, storage, now, alerts,
                 noticeCount>>

(***************************************************************************)
(* The network effect                                                      *)
(***************************************************************************)
\* the listener passed to Network.addNetworkStateListener is called with state
NetworkReport(state) ==
  /\ UNCHANGED <<screenVars, http>>
  /\ subscribed
  /\ IF IsOnline(state)
     THEN /\ Calls + (IF RefetchOnOnline(mounted, offlineRef) THEN 1 ELSE 0) <= MaxCalls
          /\ offlineMode' = FALSE
          /\ offlineRef' = RefAfterRender(offlineMode, FALSE, FALSE)
          /\ noticeCount' = IF offlineRef THEN 0 ELSE noticeCount
          /\ fetches' = Issue(fetches, IF RefetchOnOnline(mounted, offlineRef) THEN 1 ELSE 0)
          /\ loading' = IF RefetchOnOnline(mounted, offlineRef) THEN TRUE ELSE loading
     ELSE /\ offlineMode' = (ListenerSetsOffline(FALSE, hasLocalCacheRef) \/ offlineMode)
          /\ offlineRef' = RefAfterRender(offlineMode, offlineMode',
                              ListenerSetsOffline(FALSE, hasLocalCacheRef) \/ offlineRef)
          /\ UNCHANGED <<noticeCount, fetches, loading>>
  /\ UNCHANGED <<books, initialLoading, status, availableThemes, lastSync,
                 hasLocalCacheRef, screen, canceled, mounted, subscribed, cacheRead,
                 netQuery, staleQueries, mutations, storage, now, alerts>>

\* getNetworkStateAsync of the current effect resolves with state, or rejects
NetQueryResolved(state, queryOk) ==
  /\ UNCHANGED <<screenVars, http>>
  /\ netQuery = "pending"
  /\ netQuery' = "done"
  /\ IF queryOk /\ QuerySetsOffline(mounted, IsOnline(state), hasLocalCacheRef)
     THEN /\ offlineMode' = TRUE
          /\ offlineRef' = RefAfterRender(offlineMode, TRUE, TRUE)
     ELSE UNCHANGED <<offlineMode, offlineRef>>
  /\ UNCHANGED <<books, loading, initialLoading, status, availableThemes, lastSync,
                 hasLocalCacheRef, screen, canceled, mounted, subscribed, fetches,
                 cacheRead, staleQueries, mutations, storage, now, alerts, noticeCount>>

\* getNetworkStateAsync of an effect already cleaned up resolves: its own
\* `mounted` is false
StaleQueryResolved(state) ==
  /\ UNCHANGED <<screenVars, http>>
  /\ staleQueries > 0
  /\ staleQueries' = staleQueries - 1
  /\ IF QuerySetsOffline(FALSE, IsOnline(state), hasLocalCacheRef)
     THEN /\ offlineMode' = TRUE
          /\ offlineRef' = RefAfterRender(offlineMode, TRUE, TRUE)
     ELSE UNCHANGED <<offlineMode, offlineRef>>
  /\ UNCHANGED <<books, loading, initialLoading, status, availableThemes, lastSync,
                 hasLocalCacheRef, screen, canceled, mounted, subscribed, fetches,
                 cacheRead, netQuery, mutations, storage, now, alerts, noticeCount>>

(***************************************************************************)
(* Focus, filters, timer, unmount                                          *)
(***************************************************************************)
\* another screen is pushed over the list and popped again: the list gets the
\* focus back and useFocusEffect calls loadBooks
Focus ==
  /\ UNCHANGED <<screenVars, http>>
  /\ screen = "focused"
  /\ Calls < MaxCalls
  /\ fetches' = Issue(fetches, 1)
  /\ loading' = TRUE
  /\ UNCHANGED <<books, initialLoading, status, availableThemes, offlineMode, lastSync,
                 offlineRef, hasLocalCacheRef, screen, canceled, mounted, subscribed,
                 cacheRead, netQuery, staleQueries, mutations, storage, now, alerts,
                 noticeCount>>

\* a filter, the search text or the sort changes: queryParams and so loadBooks
\* change; the network effect is cleaned up and run again, useFocusEffect and
\* the filters effect each call the new loadBooks
FilterChange ==
  /\ UNCHANGED <<screenVars, http>>
  /\ screen = "focused"
  /\ Calls + 2 <= MaxCalls
  /\ staleQueries' = IF netQuery = "pending" THEN staleQueries + 1 ELSE staleQueries
  /\ netQuery' = "pending"
  /\ fetches' = Issue(fetches, 2)
  /\ loading' = TRUE
  /\ UNCHANGED <<books, initialLoading, status, availableThemes, offlineMode, lastSync,
                 offlineRef, hasLocalCacheRef, screen, canceled, mounted, subscribed,
                 cacheRead, mutations, storage, now, alerts, noticeCount>>

\* the timer of the status effect fires after 3000 ms
StatusTimeout ==
  /\ UNCHANGED <<screenVars, http>>
  /\ screen # "unmounted"
  /\ status # "null"
  /\ status' = "null"
  /\ UNCHANGED <<books, loading, initialLoading, availableThemes, offlineMode, lastSync,
                 offlineRef, hasLocalCacheRef, screen, canceled, mounted, subscribed,
                 fetches, cacheRead, netQuery, staleQueries, mutations, storage, now,
                 alerts, noticeCount>>

\* the screen unmounts: the cleanups of the effects run
Unmount ==
  /\ UNCHANGED <<screenVars, http>>
  /\ screen # "unmounted"
  /\ screen' = "unmounted"
  /\ canceled' = TRUE
  /\ mounted' = FALSE
  /\ subscribed' = FALSE
  /\ staleQueries' = IF netQuery = "pending" THEN staleQueries + 1 ELSE staleQueries
  /\ netQuery' = "done"
  /\ UNCHANGED <<books, loading, initialLoading, status, availableThemes, offlineMode,
                 lastSync, offlineRef, hasLocalCacheRef, fetches, cacheRead, mutations,
                 storage, now, alerts, noticeCount>>

(***************************************************************************)
(* List mutations                                                          *)
(***************************************************************************)
\* ratings the rate action may be given, in tenths (56 is 5.6)
RateInputs == {56}

\* variant: the number is truncated downwards
Round_Floor(t) == t \div 10
\* Math.round of a number given in tenths
Round(t) == (t + 5) \div 10
Min(a, b) == IF a < b THEN a ELSE b
Max(a, b) == IF a > b THEN a ELSE b
\* handleRate's bounded
Bounded(t) == Min(Max(Round(t), 1), 5)

\* the payloads of the three handlers
ToggleReadPayload(book) ==
  [read |-> ~book.read, favorite |-> book.favorite, rating |-> book.rating]
ToggleFavoritePayload(book) ==
  [read |-> book.read, favorite |-> ~book.favorite, rating |-> book.rating]
RatePayload(book, t) ==
  [read |-> book.read, favorite |-> book.favorite, rating |-> Bounded(t)]

\* the book PUT /books/{id} answers with: the payload's fields, and the theme
\* the service holds for the book (the payload carries none)
Updated(book, payload) ==
  [id |-> book.id, read |-> payload.read, favorite |-> payload.favorite,
   rating |-> payload.rating, theme |-> book.theme]

\* variant: every item is replaced by the updated book
ReplaceBook_All(prev, id, updated) == [i \in DOMAIN prev |-> updated]
\* variant: the updated book is added when no item has its id
ReplaceBook_AddsMissing(prev, id, updated) ==
  IF \E i \in DOMAIN prev : prev[i].id = id
  THEN [i \in DOMAIN prev |-> IF prev[i].id = id THEN updated ELSE prev[i]]
  ELSE Append(prev, updated)
\* prev.map((item) => (item.id === book.id ? updated : item))
ReplaceBook(prev, id, updated) ==
  [i \in DOMAIN prev |-> IF prev[i].id = id THEN updated ELSE prev[i]]

\* a handler that has returned holds nothing any more
FinishedMutation(pc) ==
  [pc |-> pc, op |-> "", book |-> Bk(0, FALSE, FALSE, NoRating, NoTheme),
   payload |-> [read |-> FALSE, favorite |-> FALSE, rating |-> NoRating],
   next |-> <<>>, savedAt |-> Null]

\* a handler is called with the book of a displayed row, the one its closure
\* holds, and runs up to its await: updateBook is in flight
CallHandler(op, i, t) ==
  /\ UNCHANGED <<screenVars, http>>
  /\ screen = "focused"
  /\ i \in DOMAIN books
  /\ mutations' = Append(mutations,
       [pc |-> "updateBook", op |-> op, book |-> books[i],
        payload |-> IF op = "toggleRead" THEN ToggleReadPayload(books[i])
                    ELSE IF op = "toggleFavorite" THEN ToggleFavoritePayload(books[i])
                    ELSE RatePayload(books[i], t),
        next |-> <<>>, savedAt |-> Null])
  /\ UNCHANGED <<books, loading, initialLoading, status, availableThemes, offlineMode,
                 lastSync, offlineRef, hasLocalCacheRef, screen, canceled, mounted,
                 subscribed, fetches, cacheRead, netQuery, staleQueries, storage, now,
                 alerts, noticeCount>>

\* a handler call, within the bounds on the calls of a run
Press(op, i, t) ==
  /\ Calls < MaxCalls
  /\ Len(mutations) < MaxMutations
  /\ CallHandler(op, i, t)

\* updateBook resolves: the setBooks updater, then the flag and the status
MutationOk(m) ==
  /\ UNCHANGED <<screenVars, http>>
  /\ m \in DOMAIN mutations
  /\ mutations[m].pc = "updateBook"
  /\ LET book == mutations[m].book
         updated == Updated(book, mutations[m].payload)
         next == ReplaceBook(books, book.id, updated)
     IN /\ books' = next
        /\ availableThemes' = syncThemesFromData(availableThemes, next)
        /\ mutations' = [mutations EXCEPT ![m].pc = "save", ![m].next = next,
                                          ![m].savedAt = now]
  /\ now' = now + 1
  /\ offlineMode' = FALSE
  /\ offlineRef' = RefAfterRender(offlineMode, FALSE, FALSE)
  /\ noticeCount' = IF offlineRef THEN 0 ELSE noticeCount
  /\ status' = mutations[m].op
  /\ UNCHANGED <<loading, initialLoading, lastSync, hasLocalCacheRef, screen, canceled,
                 mounted, subscribed, fetches, cacheRead, netQuery, staleQueries, storage,
                 alerts>>

\* the saveBooksCache of a mutation resolves: its then callback
MutationSaveResolved(m, writeOk) ==
  /\ UNCHANGED <<screenVars, http>>
  /\ m \in DOMAIN mutations
  /\ mutations[m].pc = "save"
  /\ storage' = StorageAfterWrite(storage,
                   CachePayload(mutations[m].next, mutations[m].savedAt), writeOk)
  /\ lastSync' = mutations[m].savedAt
  /\ hasLocalCacheRef' = TRUE
  /\ mutations' = [mutations EXCEPT ![m] = FinishedMutation("returned")]
  /\ UNCHANGED <<books, loading, initialLoading, status, availableThemes, offlineMode,
                 offlineRef, screen, canceled, mounted, subscribed, fetches, cacheRead,
                 netQuery, staleQueries, now, alerts, noticeCount>>

\* variant: a failed update raises the alert and leaves the offline flag alone
MutationFailed_StaysOnline(m, msg) ==
  /\ UNCHANGED <<screenVars, http>>
  /\ m \in DOMAIN mutations
  /\ mutations[m].pc = "updateBook"
  /\ mutations' = [mutations EXCEPT ![m].pc = "returned"]
  /\ alerts' = [count |-> alerts.count + 1, last |-> msg]
  /\ UNCHANGED <<books, loading, initialLoading, status, availableThemes, lastSync,
                 hasLocalCacheRef, screen, canceled, mounted, subscribed, fetches,
                 cacheRead, netQuery, staleQueries, storage, now, noticeCount,
                 offlineMode, offlineRef>>

\* updateBook rejects with an Error carrying msg
MutationFailed(m, msg) ==
  /\ UNCHANGED <<screenVars, http>>
  /\ m \in DOMAIN mutations
  /\ mutations[m].pc = "updateBook"
  /\ mutations' = [mutations EXCEPT ![m] = FinishedMutation("returned")]
  /\ offlineMode' = TRUE
  /\ offlineRef' = RefAfterRender(offlineMode, TRUE, TRUE)
  /\ alerts' = [count |-> alerts.count + 1, last |-> msg]
  /\ UNCHANGED <<books, loading, initialLoading, status, availableThemes, lastSync,
                 hasLocalCacheRef, screen, canceled, mounted, subscribed, fetches,
                 cacheRead, netQuery, staleQueries, storage, now, noticeCount>>

(***************************************************************************)
(* Specification                                                           *)
(***************************************************************************)
Next ==
  \/ \E f \in 1..MaxCalls, data \in Responses : GetBooksOk(f, data)
  \/ \E f \in 1..MaxCalls, writeOk \in BOOLEAN : SaveResolved(f, writeOk)
  \/ \E f \in 1..MaxCalls, msg \in ErrorMessages : GetBooksFailed(f, msg)
  \/ \E readOk \in BOOLEAN : CacheItemRead(readOk)
  \/ CacheLoaded
  \/ \E state \in NetStates : NetworkReport(state)
  \/ \E state \in NetStates, queryOk \in BOOLEAN : NetQueryResolved(state, queryOk)
  \/ \E state \in NetStates : StaleQueryResolved(state)
  \/ Focus
  \/ FilterChange
  \/ StatusTimeout
  \/ Unmount
  \/ \E op \in {"toggleRead", "toggleFavorite", "rate"}, i \in 1..2, t \in RateInputs :
        Press(op, i, t)
  \/ \E m \in 1..MaxMutations : MutationOk(m)
  \/ \E m \in 1..MaxMutations, writeOk \in BOOLEAN : MutationSaveResolved(m, writeOk)
  \/ \E m \in 1..MaxMutations, msg \in ErrorMessages : MutationFailed(m, msg)

Spec == Init /\ [][Next]_vars

(***************************************************************************)
(* The list screen over every kind of stored payload and a range of rating *)
(* inputs, with the mount-time fetch as its only fetch.                    *)
(***************************************************************************)
\* ratings handleRate may be given, in tenths: -3, 0, 1.4, 1.5, 2.6, 5.6, 6
AllRateInputs == {-30, 0, 14, 15, 26, 56, 60}

InitInputs ==
  /\ books = <<>>
  /\ loading = TRUE
  /\ initialLoading = TRUE
  /\ status = "null"
  /\ availableThemes = <<>>
  /\ offlineMode = FALSE
  /\ lastSync = Null
  /\ offlineRef = FALSE
  /\ hasLocalCacheRef = FALSE
  /\ screen = "focused"
  /\ canceled = FALSE
  /\ mounted = TRUE
  /\ subscribed = TRUE
  /\ fetches = <<NewFetch>>
  /\ cacheRead = [pc |-> "getItem", result |-> NullCache]
  /\ netQuery = "pending"
  /\ staleQueries = 0
  /\ mutations = <<>>
  /\ storage \in AllStoredPayloads
  /\ now = StartTime
  /\ alerts = [count |-> 0, last |-> ""]
  /\ noticeCount = 0
  /\ form = NoForm
  /\ detail = NoDetail
  /\ sent = <<>>
  /\ http = NoCall

NextInputs ==
  \/ \E data \in Responses : GetBooksOk(1, data)
  \/ \E writeOk \in BOOLEAN : SaveResolved(1, writeOk)
  \/ \E msg \in ErrorMessages : GetBooksFailed(1, msg)
  \/ \E readOk \in BOOLEAN : CacheItemRead(readOk)
  \/ CacheLoaded
  \/ \E op \in {"toggleRead", "toggleFavorite", "rate"}, i \in 1..2, t \in AllRateInputs :
        Press(op, i, t)
  \/ \E m \in 1..MaxMutations : MutationOk(m)
  \/ \E m \in 1..MaxMutations, writeOk \in BOOLEAN : MutationSaveResolved(m, writeOk)
  \/ \E m \in 1..MaxMutations, msg \in ErrorMessages : MutationFailed(m, msg)

SpecInputs == InitInputs /\ [][NextInputs]_vars

(***************************************************************************)
(* The list screen with its toggles pressed up to MaxToggles times, after  *)
(* the mount-time fetch has displayed a list.                              *)
(***************************************************************************)
MaxToggles == 2

\* a toggle button of a displayed row is pressed
Tap(op, i) ==
  /\ Len(mutations) < MaxToggles
  /\ CallHandler(op, i, 0)

NextToggles ==
  \/ \E data \in Responses : GetBooksOk(1, data)
  \/ \E writeOk \in BOOLEAN : SaveResolved(1, writeOk)
  \/ \E op \in {"toggleRead", "toggleFavorite"}, i \in 1..2 : Tap(op, i)
  \/ \E m \in 1..MaxToggles : MutationOk(m)
  \/ \E m \in 1..MaxToggles, writeOk \in BOOLEAN : MutationSaveResolved(m, writeOk)
  \/ \E m \in 1..MaxToggles, msg \in ErrorMessages : MutationFailed(m, msg)

SpecToggles == Init /\ [][NextToggles]_vars

(***************************************************************************)
(* The screens pushed over the list: NewBook and EditBook (both render     *)
(* BookForm) and BookDetails.  One of them is open at a time.  The list    *)
(* stays mounted beneath; of its operations the cache read and the failure *)
(* of the mount-time fetch are kept, so that the list may be offline.      *)
(***************************************************************************)
\* the books EditBook and BookDetails may load with getBook
LoadableBooks == Range(ListA)

\* the stars of BookForm: handleStarPress(starValue), here 1, 3 and 5 in tenths
StarInputs == {10, 30, 50}

\* BookForm's initialRating, from initialValues.rating (NoRating: not a number)
InitialRating(r) == IF r >= 1 /\ r <= 5 THEN r ELSE 0

\* EditBook's initialValues.rating: book.rating ?? 0
EditInitialRating(book) == IF book.rating = NoRating THEN 0 ELSE book.rating

\* a request of one of these screens: who sent it, which call, the payload's
\* read, favorite and rating, and whether it is pending, ok or failed
Request(from, kind, r, f, g) ==
  [from |-> from, kind |-> kind, read |-> r, favorite |-> f, rating |-> g,
   pc |-> "pending"]
\* a request that has resolved holds nothing any more
Resolved(req, pc) ==
  [from |-> req.from, kind |-> req.kind, read |-> FALSE, favorite |-> FALSE,
   rating |-> NoRating, pc |-> pc]

(* Texts are sequences of characters. *)
\* the texts typed into the name and author inputs: "", " ", "a", " a "
TextInputs == {<<>>, <<" ">>, <<"a">>, <<" ", "a", " ">>}
\* the texts typed into the year input: "", " ", "19", " 7", "x", "7x"
YearInputs == {<<>>, <<" ">>, <<"1", "9">>, <<" ", "7">>, <<"x">>, <<"7", "x">>}
\* the name and the author of a book the service returns (both required)
BookText == <<"a">>

RECURSIVE TrimStart(_)
TrimStart(s) == IF s # <<>> /\ Head(s) = " " THEN TrimStart(Tail(s)) ELSE s
RECURSIVE TrimEnd(_)
TrimEnd(s) ==
  IF s # <<>> /\ s[Len(s)] = " " THEN TrimEnd(SubSeq(s, 1, Len(s) - 1)) ELSE s
\* variant: only the leading white space is removed
Trim_LeadingOnly(s) == TrimStart(s)
\* String.prototype.trim
Trim(s) == TrimEnd(TrimStart(s))

NaN == -1
Undefined == -2
DigitChars == {"1", "7", "9"}
DigitValue(c) == CASE c = "1" -> 1 [] c = "7" -> 7 [] c = "9" -> 9 [] OTHER -> NaN
\* Number(text) of a text without surrounding white space: the value of a
\* decimal numeral, 0 for the empty text, NaN for the other texts drawn here
RECURSIVE Number(_)
Number(s) ==
  IF s = <<>> THEN 0
  ELSE LET front == Number(SubSeq(s, 1, Len(s) - 1))
       IN IF s[Len(s)] \notin DigitChars \/ front = NaN THEN NaN
          ELSE front * 10 + DigitValue(s[Len(s)])

\* BookForm.handleSubmit as a function of the inputs: the keys of nextErrors
\* and the name, author and year of the payload given to onSubmit, if it is
NoPayload == [name |-> <<>>, author |-> <<>>, year |-> Undefined]
handleSubmit(name, author, yearText) ==
  LET trimmedName == Trim(name)
      trimmedAuthor == Trim(author)
      value == Number(Trim(yearText))
      nextErrors ==
        (IF trimmedName = <<>> THEN {"name"} ELSE {})
          \cup (IF trimmedAuthor = <<>> THEN {"author"} ELSE {})
          \cup (IF Trim(yearText) # <<>> /\ value = NaN THEN {"year"} ELSE {})
      parsedYear == IF Trim(yearText) # <<>> /\ value # NaN THEN value ELSE Undefined
  IN [errors |-> nextErrors,
      payload |-> IF nextErrors # {} THEN NoPayload
                  ELSE [name |-> trimmedName, author |-> trimmedAuthor,
                        year |-> parsedYear]]

\* BookForm's canSubmit, which enables the submit button
canSubmit == Trim(form.name) # <<>> /\ Trim(form.author) # <<>> /\ ~form.submitting

NoScreenOpen == form.screen = "none" /\ ~detail.loaded

\* the list navigates to books/new: BookForm mounts without initialValues
OpenNewBook ==
  /\ NoScreenOpen
  /\ form' = [screen |-> "new", rating |-> InitialRating(NoRating), submitting |-> FALSE,
              name |-> <<>>, author |-> <<>>, yearText |-> <<>>, errors |-> {}]
  /\ UNCHANGED <<detail, sent, storage, now, alerts>>
  /\ UNCHANGED <<listVars, http>>

\* EditBook has loaded book and renders BookForm with its initialValues
OpenEditBook(book) ==
  /\ NoScreenOpen
  /\ form' = [screen |-> "edit", rating |-> InitialRating(EditInitialRating(book)),
              submitting |-> FALSE, name |-> BookText, author |-> BookText,
              yearText |-> <<>>, errors |-> {}]
  /\ UNCHANGED <<detail, sent, storage, now, alerts>>
  /\ UNCHANGED <<listVars, http>>

\* BookForm.handleStarPress(value); the stars are disabled while submitting
handleStarPress(value) ==
  /\ form.screen # "none"
  /\ ~form.submitting
  /\ form' = [form EXCEPT !.rating = Min(Max(Round(value), 1), 5)]
  /\ UNCHANGED <<detail, sent, storage, now, alerts>>
  /\ UNCHANGED <<listVars, http>>

\* the name, author and year inputs: onChangeText, editable while not submitting
setName(text) ==
  /\ form.screen # "none"
  /\ ~form.submitting
  /\ form' = [form EXCEPT !.name = text]
  /\ UNCHANGED <<detail, sent, storage, now, alerts>>
  /\ UNCHANGED <<listVars, http>>

setAuthor(text) ==
  /\ form.screen # "none"
  /\ ~form.submitting
  /\ form' = [form EXCEPT !.author = text]
  /\ UNCHANGED <<detail, sent, storage, now, alerts>>
  /\ UNCHANGED <<listVars, http>>

setYearText(text) ==
  /\ form.screen # "none"
  /\ ~form.submitting
  /\ form' = [form EXCEPT !.yearText = text]
  /\ UNCHANGED <<detail, sent, storage, now, alerts>>
  /\ UNCHANGED <<listVars, http>>

\* the request a form screen sends: the payload's name, author and year too
FormRequest(from, payload, g) ==
  [from |-> from, kind |-> IF from = "new" THEN "createBook" ELSE "updateBook",
   read |-> FALSE, favorite |-> FALSE, rating |-> g, pc |-> "pending",
   name |-> payload.name, author |-> payload.author, year |-> payload.year]

\* the submit button, enabled by canSubmit, is pressed: BookForm.handleSubmit
\* records the errors and returns, or calls onSubmit(payload), that is
\* NewBook.handleSubmit or EditBook.handleSubmit up to its await
FormSubmit ==
  /\ form.screen # "none"
  /\ canSubmit
  /\ LET r == handleSubmit(form.name, form.author, form.yearText)
     IN IF r.errors # {}
        THEN /\ form' = [form EXCEPT !.errors = r.errors]
             /\ sent' = sent
        ELSE /\ Len(sent) < MaxRequests
             /\ sent' = Append(sent, FormRequest(form.screen, r.payload, form.rating))
             /\ form' = [form EXCEPT !.errors = {}, !.submitting = TRUE]
  /\ UNCHANGED <<detail, storage, now, alerts>>
  /\ UNCHANGED <<listVars, http>>

\* the form screen is left (router.back) while nothing is being submitted
CloseForm ==
  /\ form.screen # "none"
  /\ ~form.submitting
  /\ form' = NoForm
  /\ UNCHANGED <<detail, sent, storage, now, alerts>>
  /\ UNCHANGED <<listVars, http>>

\* BookDetails.loadData has loaded book
OpenDetails(book) ==
  /\ NoScreenOpen
  /\ detail' = [loaded |-> TRUE, book |-> book]
  /\ UNCHANGED <<form, sent, storage, now, alerts>>
  /\ UNCHANGED <<listVars, http>>

\* BookDetails is left while none of its requests is pending
CloseDetails ==
  /\ detail.loaded
  /\ \A k \in DOMAIN sent : sent[k].pc # "pending"
  /\ detail' = NoDetail
  /\ UNCHANGED <<form, sent, storage, now, alerts>>
  /\ UNCHANGED <<listVars, http>>

\* BookDetails.handleRate(rating), rating given in tenths: the rounded value
\* is sent, or the handler returns when it is below 1 or above 5
DetailRate(t) ==
  /\ detail.loaded
  /\ IF Round(t) < 1 \/ Round(t) > 5
     THEN sent' = sent
     ELSE /\ Len(sent) < MaxRequests
          /\ sent' = Append(sent, Request("detail", "updateBook", detail.book.read,
                                          detail.book.favorite, Round(t)))
  /\ UNCHANGED <<form, detail, storage, now, alerts>>
  /\ UNCHANGED <<listVars, http>>

\* BookDetails.handleToggleRead and handleToggleFavorite up to the await
DetailToggle(op) ==
  /\ detail.loaded
  /\ Len(sent) < MaxRequests
  /\ sent' = Append(sent,
                Request("detail", "updateBook",
                        IF op = "toggleRead" THEN ~detail.book.read ELSE detail.book.read,
                        IF op = "toggleFavorite" THEN ~detail.book.favorite
                        ELSE detail.book.favorite,
                        detail.book.rating))
  /\ UNCHANGED <<form, detail, storage, now, alerts>>
  /\ UNCHANGED <<listVars, http>>

\* BookDetails.handleDelete, "Supprimer" pressed: deleteBook is in flight
DetailDelete ==
  /\ detail.loaded
  /\ Len(sent) < MaxRequests
  /\ sent' = Append(sent, Request("detail", "deleteBook", FALSE, FALSE, NoRating))
  /\ UNCHANGED <<form, detail, storage, now, alerts>>
  /\ UNCHANGED <<listVars, http>>

\* the request resolves: NewBook raises the success alert, EditBook goes back,
\* BookDetails takes the returned book or, after a delete, is replaced by the list
RequestOk(k) ==
  /\ k \in DOMAIN sent
  /\ sent[k].pc = "pending"
  /\ sent' = [sent EXCEPT ![k] = Resolved(sent[k], "ok")]
  /\ form' = IF sent[k].from = "new" THEN [form EXCEPT !.submitting = FALSE]
             ELSE IF sent[k].from = "edit" THEN NoForm
             ELSE form
  /\ detail' = IF sent[k].from # "detail" THEN detail
               ELSE IF sent[k].kind = "deleteBook" THEN NoDetail
               ELSE [detail EXCEPT !.book.read = sent[k].read,
                                   !.book.favorite = sent[k].favorite,
                                   !.book.rating = sent[k].rating]
  /\ alerts' = IF sent[k].from = "new"
               THEN [count |-> alerts.count + 1, last |-> "Livre ajoute avec succes."]
               ELSE alerts
  /\ UNCHANGED <<storage, now>>
  /\ UNCHANGED <<listVars, http>>

\* the request rejects with an Error carrying msg: every handler raises the alert
RequestFailed(k, msg) ==
  /\ k \in DOMAIN sent
  /\ sent[k].pc = "pending"
  /\ sent' = [sent EXCEPT ![k] = Resolved(sent[k], "failed")]
  /\ form' = IF sent[k].from \in {"new", "edit"} THEN [form EXCEPT !.submitting = FALSE]
             ELSE form
  /\ alerts' = [count |-> alerts.count + 1, last |-> msg]
  /\ UNCHANGED <<detail, storage, now>>
  /\ UNCHANGED <<listVars, http>>

NextScreens ==
  \/ \E readOk \in BOOLEAN : CacheItemRead(readOk)
  \/ CacheLoaded
  \/ \E msg \in ErrorMessages : GetBooksFailed(1, msg)
  \/ OpenNewBook
  \/ \E book \in LoadableBooks : OpenEditBook(book)
  \/ \E value \in StarInputs : handleStarPress(value)
  \/ setName(BookText)
  \/ setAuthor(BookText)
  \/ FormSubmit
  \/ CloseForm
  \/ \E book \in LoadableBooks : OpenDetails(book)
  \/ CloseDetails
  \/ \E t \in AllRateInputs : DetailRate(t)
  \/ \E op \in {"toggleRead", "toggleFavorite"} : DetailToggle(op)
  \/ DetailDelete
  \/ \E k \in 1..MaxRequests : RequestOk(k)
  \/ \E k \in 1..MaxRequests, msg \in ErrorMessages : RequestFailed(k, msg)

SpecScreens == Init /\ [][NextScreens]_vars

(***************************************************************************)
(* The client's request(): one call, over the responses fetch may resolve  *)
(* with.                                                                   *)
(***************************************************************************)
\* the status codes drawn
Statuses == {200, 201, 204, 299, 300, 400, 404, 500}
\* response.ok
Ok(code) == code >= 200 /\ code <= 299

\* what response.json() does with the body: it parses to a value (an object
\* with or without a message field, or null) or the parse fails
JsonNull == [null |-> TRUE]
Bodies ==
  {[parses |-> TRUE, value |-> [message |-> "Livre introuvable"]],
   [parses |-> TRUE, value |-> [message |-> ""]],
   [parses |-> TRUE, value |-> [id |-> 1]],
   [parses |-> TRUE, value |-> JsonNull],
   [parses |-> FALSE, value |-> JsonNull]}

\* `La requete a echoue avec le statut ${response.status}`
Fallback(code) == "La requete a echoue avec le statut " \o ToString(code)

\* variant: the message field is used whenever the body has one
safeParseError_AnyMessage(code, body) ==
  IF body.parses /\ "message" \in DOMAIN body.value THEN body.value.message
  ELSE Fallback(code)
\* safeParseError: body?.message when it is truthy, the fallback otherwise and
\* when response.json() throws
safeParseError(code, body) ==
  IF body.parses /\ "message" \in DOMAIN body.value /\ body.value.message # ""
  THEN body.value.message
  ELSE Fallback(code)

\* what request returns for no body
NoValue == [undefined |-> TRUE]
\* request(path, init, expectsBody) once fetch has resolved with a response:
\* how the promise settles, and how often response.json() was called
request(code, body, expectsBody) ==
  IF ~Ok(code)
  THEN [outcome |-> "throws", error |-> "Error",
        message |-> safeParseError(code, body), value |-> NoValue, bodyReads |-> 1]
  ELSE IF ~expectsBody
  THEN [outcome |-> "returns", error |-> "", message |-> "", value |-> NoValue,
        bodyReads |-> 0]
  ELSE IF body.parses
  THEN [outcome |-> "returns", error |-> "", message |-> "", value |-> body.value,
        bodyReads |-> 1]
  ELSE [outcome |-> "throws", error |-> "SyntaxError", message |-> "", value |-> NoValue,
        bodyReads |-> 1]

\* fetch resolves with a response
FetchResolved(code, body, expectsBody) ==
  /\ http.pc = "idle"
  /\ http' = [http EXCEPT !.pc = "responded", !.status = code, !.body = body,
                          !.expectsBody = expectsBody]
  /\ UNCHANGED <<listVars, screenVars, storage, now, alerts>>

\* the rest of request() runs: the promise settles
RequestSettled ==
  /\ http.pc = "responded"
  /\ http' = [http EXCEPT !.pc = "settled",
                          !.result = request(http.status, http.body, http.expectsBody)]
  /\ UNCHANGED <<listVars, screenVars, storage, now, alerts>>

NextClient ==
  \/ \E code \in Statuses, body \in Bodies, expectsBody \in BOOLEAN :
        FetchResolved(code, body, expectsBody)
  \/ RequestSettled

SpecClient == Init /\ [][NextClient]_vars

(***************************************************************************)
(* NewBook and EditBook alone, with every text of TextInputs and           *)
(* YearInputs typed into the form.                                         *)
(***************************************************************************)
NextForm ==
  \/ OpenNewBook
  \/ \E book \in LoadableBooks : OpenEditBook(book)
  \/ \E text \in TextInputs : setName(text)
  \/ \E text \in TextInputs : setAuthor(text)
  \/ \E text \in YearInputs : setYearText(text)
  \/ FormSubmit
  \/ CloseForm
  \/ \E k \in 1..MaxRequests : RequestOk(k)
  \/ \E k \in 1..MaxRequests, msg \in ErrorMessages : RequestFailed(k, msg)

SpecForm == Init /\ [][NextForm]_vars

(***************************************************************************)
(* Properties.  A handler with given arguments has one outcome, so          *)
(* ENABLED (Handler /\ P') says that P holds right after the handler ran.   *)
(***************************************************************************)
InFlight(f) == f \in DOMAIN fetches /\ fetches[f].pc = "getBooks"
Saving(f) == f \in DOMAIN fetches /\ fetches[f].pc = "save"

\* C1: a live fetch that fails while hasLocalCacheRef is true leaves the
\* displayed collection unchanged, ends with offlineMode and offlineRef true
\* and raises no alert.
C1_FailureWithCacheGoesOffline ==
  \A f \in 1..MaxCalls, msg \in ErrorMessages :
    (InFlight(f) /\ hasLocalCacheRef)
      => ENABLED ( /\ GetBooksFailed(f, msg)
                   /\ books' = books
                   /\ offlineMode' /\ offlineRef'
                   /\ alerts' = alerts
                   /\ fetches'[f].pc = "failed" )

\* a fetch has failed with the cache known: the notice is up, the flag is set
C1_Witness ==
  /\ \E f \in DOMAIN fetches : fetches[f].pc = "failed"
  /\ hasLocalCacheRef /\ offlineMode /\ offlineRef
  /\ status = OfflineNotice
  /\ books = ListC
  /\ alerts.count = 0

\* C2: between two moments at which the offline flag is cleared, loadBooks
\* sets the offline notice at most once, however many fetches fail.
C2_NoticeAtMostOncePerOfflinePeriod == noticeCount <= 1

\* two fetches have failed in one offline period and the notice was set once
C2_Witness ==
  /\ Cardinality({f \in DOMAIN fetches : fetches[f].pc = "failed"}) >= 2
  /\ hasLocalCacheRef /\ offlineRef
  /\ noticeCount = 1
  /\ alerts.count = 0

\* C3 as claimed: the first fetch failure with a cache snapshot present after
\* the mount sets the offline notice, whatever set the offline flag before.
C3_FirstFailureAlwaysNotifies ==
  \A f \in 1..MaxCalls, msg \in ErrorMessages :
    ( /\ InFlight(f)
      /\ hasLocalCacheRef
      /\ \A g \in DOMAIN fetches : fetches[g].pc \notin {"done", "failed"} )
      => ENABLED ( /\ GetBooksFailed(f, msg)
                   /\ status' = OfflineNotice
                   /\ noticeCount' = noticeCount + 1 )

\* C4: an "online" report calls loadBooks exactly once when the offline flag
\* was true and not at all when it was false; an "offline" report calls it
\* never; the listener is only called while its effect is mounted.
C4_OneRefetchPerRecovery ==
  \A state \in NetStates :
    (ENABLED NetworkReport(state))
      => /\ mounted
         /\ ENABLED ( /\ NetworkReport(state)
                      /\ Len(fetches') = Len(fetches)
                           + (IF IsOnline(state) /\ offlineRef THEN 1 ELSE 0)
                      /\ \A f \in DOMAIN fetches : fetches'[f] = fetches[f]
                      /\ \A f \in DOMAIN fetches' \ DOMAIN fetches :
                           fetches'[f].pc = "getBooks" )

\* the first fetch failed with the cache known, then an "online" report
\* cleared the flag and issued the second fetch
C4_Witness ==
  /\ Len(fetches) = 2 /\ fetches[1].pc = "failed" /\ fetches[2].pc = "getBooks"
  /\ mutations = <<>>
  /\ hasLocalCacheRef /\ status = OfflineNotice
  /\ ~offlineMode /\ ~offlineRef

\* C5 as claimed: when the save of a successful fetch resolves, the displayed
\* collection is that fetch's response.
C5_ResponseDisplayedAtCompletion ==
  \A f \in 1..MaxCalls, writeOk \in BOOLEAN :
    Saving(f) => ENABLED (SaveResolved(f, writeOk) /\ books' = fetches[f].data)

\* C5 amended: the response is displayed and handed to saveBooksCache when it
\* arrives; when that save resolves, lastSync is the timestamp of that save,
\* hasLocalCacheRef is true, the offline flag is false, and the snapshot, if
\* the write landed, holds that response under that timestamp.
C5_SuccessfulFetch ==
  \A f \in 1..MaxCalls :
    /\ \A data \in Responses :
         InFlight(f)
           => ENABLED ( /\ GetBooksOk(f, data)
                        /\ books' = data
                        /\ fetches'[f].pc = "save" /\ fetches'[f].data = data )
    /\ Saving(f)
         => /\ ENABLED ( /\ SaveResolved(f, TRUE)
                         /\ lastSync' = fetches[f].savedAt
                         /\ hasLocalCacheRef'
                         /\ ~offlineMode' /\ ~offlineRef'
                         /\ storage'.kind = "ok"
                         /\ storage'.books = fetches[f].data
                         /\ storage'.savedAt = lastSync' )
            /\ ENABLED ( /\ SaveResolved(f, FALSE)
                         /\ lastSync' = fetches[f].savedAt
                         /\ hasLocalCacheRef'
                         /\ ~offlineMode' /\ ~offlineRef'
                         /\ storage' = storage )

\* the mount-time fetch has completed and its response is the snapshot, but
\* the displayed collection is no longer that response
C5_Witness ==
  /\ Len(fetches) = 1 /\ fetches[1].pc = "done"
  /\ storage.kind = "ok" /\ storage.books \in Responses
  /\ lastSync = storage.savedAt
  /\ books # storage.books
  /\ hasLocalCacheRef /\ ~offlineMode /\ ~offlineRef

\* C6 as claimed: a fetch that fails while hasLocalCacheRef is false raises an
\* alert with the error's message, sets neither the notice nor the offline
\* flag, and the displayed collection is empty.
C6_NoCacheFailure ==
  \A f \in 1..MaxCalls, msg \in ErrorMessages :
    (InFlight(f) /\ ~hasLocalCacheRef)
      => ENABLED ( /\ GetBooksFailed(f, msg)
                   /\ alerts' = [count |-> alerts.count + 1, last |-> msg]
                   /\ status' = status /\ noticeCount' = noticeCount
                   /\ offlineMode' = offlineMode /\ offlineRef' = offlineRef
                   /\ books' = <<>> )

\* C7 as claimed: a cache read that resolves after a live fetch has succeeded
\* (and the controller is online) leaves books and lastSync as they are.
C7_LiveFetchWins ==
  ( /\ cacheRead.pc = "resolving"
    /\ \E f \in DOMAIN fetches : fetches[f].pc = "done"
    /\ ~offlineMode )
    => ENABLED ( /\ CacheLoaded
                 /\ books' = books
                 /\ lastSync' = lastSync )

\* C8 as claimed: mounted over a persisted snapshot, once the cache read and
\* the (failed) mount-time fetch have both completed, the cached entries are
\* displayed, the offline flag is true, the notice was set once and no alert
\* was raised.
C8_ReopenOffline ==
  ( /\ cacheRead.pc = "done" /\ cacheRead.result.found
    /\ Len(fetches) = 1 /\ fetches[1].pc = "failed"
    /\ mutations = <<>>
    /\ screen = "focused" )
    => /\ books = cacheRead.result.books
       /\ offlineMode /\ offlineRef
       /\ noticeCount = 1
       /\ alerts.count = 0

\* C9: a cache read that resolves after the screen has unmounted changes none
\* of books, availableThemes, lastSync, loading, initialLoading and
\* hasLocalCacheRef.
C9_CanceledCacheLoadIsDiscarded ==
  (cacheRead.pc = "resolving" /\ screen = "unmounted")
    => ENABLED ( /\ CacheLoaded
                 /\ UNCHANGED <<books, availableThemes, lastSync, loading,
                                initialLoading, hasLocalCacheRef>> )

\* the read found a snapshot and resolved after the unmount: nothing of it shows
C9_Witness ==
  /\ cacheRead.pc = "done" /\ cacheRead.result.found
  /\ screen = "unmounted" /\ canceled
  /\ Len(fetches) = 1 /\ fetches[1].pc = "getBooks"
  /\ books = <<>> /\ lastSync = Null /\ ~hasLocalCacheRef /\ initialLoading

\* C10: after the listener is called with a state that is not online,
\* offlineMode and offlineRef are true, with or without a cache snapshot and
\* with or without a fetch in flight, and the callback has issued no fetch.
C10_ProactiveOfflineFlag ==
  \A state \in NetStates :
    (subscribed /\ ~IsOnline(state))
      => ENABLED ( /\ NetworkReport(state)
                   /\ offlineMode' /\ offlineRef'
                   /\ fetches' = fetches )

\* the flag is set although no cache is known, a fetch is in flight, no
\* mutation has run and the one-shot query has not answered: a report set it
C10_Witness ==
  /\ offlineMode /\ offlineRef
  /\ ~hasLocalCacheRef
  /\ Len(fetches) = 1 /\ fetches[1].pc = "getBooks"
  /\ mutations = <<>> /\ netQuery = "pending" /\ staleQueries = 0

Updating(m) == m \in DOMAIN mutations /\ mutations[m].pc = "updateBook"
SavingMutation(m) == m \in DOMAIN mutations /\ mutations[m].pc = "save"

\* C11: when the update of a list mutation succeeds, with the offline flag
\* true or false, the offline flag is cleared, the displayed collection is the
\* previous one with the returned book in the place of the book of that id,
\* and saveBooksCache is called with that collection; when that save resolves,
\* lastSync is its timestamp and hasLocalCacheRef is true.
C11_MutationSuccess ==
  \A m \in 1..MaxMutations :
    /\ Updating(m)
         => ENABLED ( /\ MutationOk(m)
                      /\ ~offlineMode' /\ ~offlineRef'
                      /\ Len(books') = Len(books)
                      /\ \A i \in DOMAIN books :
                           IF books[i].id = mutations[m].book.id
                           THEN /\ books'[i].id = mutations[m].book.id
                                /\ books'[i].read = mutations[m].payload.read
                                /\ books'[i].favorite = mutations[m].payload.favorite
                                /\ books'[i].rating = mutations[m].payload.rating
                           ELSE books'[i] = books[i]
                      /\ mutations'[m].pc = "save"
                      /\ mutations'[m].next = books'
                      /\ mutations'[m].savedAt = now )
    /\ SavingMutation(m)
         => ENABLED ( /\ MutationSaveResolved(m, TRUE)
                      /\ lastSync' = mutations[m].savedAt
                      /\ hasLocalCacheRef'
                      /\ storage' = [kind |-> "ok", books |-> mutations[m].next,
                                      savedAt |-> mutations[m].savedAt] )

\* the only fetch failed into the offline branch, so the flag was true; the
\* mutation of the cached book then succeeded and cleared it
C11_Witness ==
  /\ Len(fetches) = 1 /\ fetches[1].pc = "failed" /\ alerts.count = 0
  /\ Len(mutations) = 1 /\ mutations[1].pc = "save"
  /\ ~offlineMode /\ ~offlineRef
  /\ Len(books) = 1 /\ books # ListC /\ books = mutations[1].next

\* C13: when the update of a list mutation fails, the offline flag is set,
\* an alert carrying the error's message is raised, and the displayed
\* collection, the theme list, lastSync and the snapshot are unchanged; the
\* handler returns without calling saveBooksCache.
C13_MutationFailure ==
  \A m \in 1..MaxMutations, msg \in ErrorMessages :
    Updating(m)
      => ENABLED ( /\ MutationFailed(m, msg)
                   /\ offlineMode' /\ offlineRef'
                   /\ alerts' = [count |-> alerts.count + 1, last |-> msg]
                   /\ UNCHANGED <<books, availableThemes, lastSync, storage>>
                   /\ mutations'[m].pc = "returned" )

\* the cached list is displayed, the fetch is still in flight, and the one
\* alert and the offline flag come from the mutation that failed
C13_Witness ==
  /\ Len(fetches) = 1 /\ fetches[1].pc = "getBooks"
  /\ Len(mutations) = 1 /\ mutations[1].pc = "returned"
  /\ alerts.count = 1
  /\ offlineMode /\ offlineRef
  /\ books = ListC /\ storage.books = ListC /\ lastSync = storage.savedAt

\* the saveBooksCache calls whose AsyncStorage.setItem has not resolved
PendingWrites ==
  Cardinality({f \in DOMAIN fetches : fetches[f].pc = "save"})
    + Cardinality({m \in DOMAIN mutations : mutations[m].pc = "save"})

\* C14 as claimed: in every reachable state at most one saveBooksCache write
\* is pending.
C14_AtMostOnePendingWrite == PendingWrites <= 1

\* the combinations the claim calls online: connected, and reachable or unknown
OnlineCombinations ==
  { [isConnected |-> "true", isInternetReachable |-> "true"],
    [isConnected |-> "true", isInternetReachable |-> "undefined"] }

\* C15: for each of the nine combinations of isConnected and
\* isInternetReachable, the listener and the one-shot query treat the state
\* as online exactly when isConnected is true and isInternetReachable is not
\* false: the listener ends with the offline flag false for these and true
\* for all others, and the query (mounted, cache known) sets the flag for
\* exactly the others.
C15_ConnectivityDerivation ==
  \A state \in NetStates :
    /\ (ENABLED NetworkReport(state))
         => ENABLED ( /\ NetworkReport(state)
                      /\ offlineMode' = (state \notin OnlineCombinations)
                      /\ offlineRef' = (state \notin OnlineCombinations) )
    /\ (netQuery = "pending" /\ mounted /\ hasLocalCacheRef /\ ~offlineMode)
         => ENABLED ( /\ NetQueryResolved(state, TRUE)
                      /\ offlineMode' = (state \notin OnlineCombinations)
                      /\ offlineRef' = (state \notin OnlineCombinations) )

\* the cache is known, no fetch has failed and no mutation ran, the one-shot
\* query has answered and the offline flag is set
C15_Witness ==
  /\ netQuery = "done" /\ staleQueries = 0 /\ mounted
  /\ hasLocalCacheRef /\ offlineMode /\ offlineRef
  /\ Len(fetches) = 1 /\ fetches[1].pc = "getBooks"
  /\ mutations = <<>>

\* C17 as claimed: a successful live fetch whose cache write fails ends with
\* the server response displayed.
C17_WriteFailureEndsWithResponse ==
  \A f \in 1..MaxCalls :
    Saving(f) => ENABLED (SaveResolved(f, FALSE) /\ books' = fetches[f].data)

\* C17 amended: saveBooksCache resolves with the timestamp it took when it
\* was called, whether the write landed or failed; a live fetch whose cache
\* write fails completes as a success: lastSync is that timestamp,
\* hasLocalCacheRef is true, the offline flag is false, no alert is raised,
\* no notice is set, the displayed collection is left as it is and the
\* snapshot keeps its previous content.
C17_WriteFailureIsSilent ==
  \A f \in 1..MaxCalls :
    Saving(f)
      => /\ fetches[f].savedAt # Null
         /\ ENABLED ( /\ SaveResolved(f, FALSE)
                      /\ fetches'[f].pc = "done"
                      /\ lastSync' = fetches[f].savedAt
                      /\ hasLocalCacheRef'
                      /\ ~offlineMode' /\ ~offlineRef'
                      /\ alerts' = alerts
                      /\ status' = status
                      /\ books' = books
                      /\ storage' = storage )

\* the only fetch succeeded, nothing is stored (its write failed), and the
\* controller is online with the response displayed and no alert
C17_Witness ==
  /\ Len(fetches) = 1 /\ fetches[1].pc = "done"
  /\ mutations = <<>>
  /\ storage.kind = "absent"
  /\ books \in Responses
  /\ lastSync # Null /\ hasLocalCacheRef
  /\ ~offlineMode /\ ~offlineRef
  /\ alerts.count = 0

\* C16: loadBooksCache never throws; it returns null exactly when nothing is
\* stored, the payload cannot be read or parsed, or its books field is missing
\* or not a list; otherwise it returns the stored books with the stored
\* savedAt, or with the current time when savedAt is missing or not a number.
C16_LoadBooksCache ==
  cacheRead.pc = "getItem"
    => \A readOk \in BOOLEAN :
         ENABLED ( /\ CacheItemRead(readOk)
                   /\ cacheRead'.pc = "resolving"
                   /\ cacheRead'.result.found
                        = (readOk /\ storage.kind \in {"ok", "nostamp"})
                   /\ cacheRead'.result.found
                        => /\ cacheRead'.result.books = storage.books
                           /\ cacheRead'.result.savedAt
                                = (IF storage.kind = "ok" THEN storage.savedAt
                                   ELSE now) )

\* a payload without savedAt was loaded: its books are displayed and lastSync
\* is the time of the read
C16_Witness ==
  /\ cacheRead.pc = "done" /\ cacheRead.result.found
  /\ storage.kind = "nostamp"
  /\ fetches[1].pc = "getBooks" /\ mutations = <<>>
  /\ books = storage.books
  /\ lastSync = StartTime
  /\ hasLocalCacheRef

\* round then clamp into [1,5], for an input in tenths, written without Math.round
RoundThenClamp(t) ==
  LET k == CHOOSE n \in -10..10 : 10 * n - 5 <= t /\ t < 10 * n + 5
  IN IF k < 1 THEN 1 ELSE IF k > 5 THEN 5 ELSE k

\* C18: for every input r the list's handleRate issues an update whose rating
\* is min(max(round(r), 1), 5): -3 and 0 give 1, 6 and 5.6 give 5; the request
\* is issued whenever a toggle of the same book would be.
C18_ListRatingClamp ==
  /\ RoundThenClamp(-30) = 1 /\ RoundThenClamp(0) = 1
  /\ RoundThenClamp(60) = 5 /\ RoundThenClamp(56) = 5
  /\ \A i \in 1..2, t \in AllRateInputs :
       (ENABLED Press("toggleRead", i, t))
         => ENABLED ( /\ Press("rate", i, t)
                      /\ Len(mutations') = Len(mutations) + 1
                      /\ mutations'[Len(mutations')].pc = "updateBook"
                      /\ mutations'[Len(mutations')].book = books[i]
                      /\ mutations'[Len(mutations')].payload.rating
                           = RoundThenClamp(t) )

\* an update of the unrated book with a rating clamped or rounded up to 1 is
\* in flight
C18_Witness ==
  /\ Len(mutations) = 1
  /\ mutations[1].op = "rate" /\ mutations[1].pc = "updateBook"
  /\ mutations[1].book.rating = NoRating
  /\ mutations[1].payload.rating = 1

\* C12 as claimed: when a create (NewBook) or a delete (BookDetails) succeeds,
\* the offline flag is false right after, and the snapshot has been written
\* with the updated collection.
C12_CreateDeletePersist ==
  \A k \in 1..MaxRequests :
    ( /\ k \in DOMAIN sent
      /\ sent[k].pc = "pending"
      /\ sent[k].kind \in {"createBook", "deleteBook"} )
      => ENABLED ( /\ RequestOk(k)
                   /\ ~offlineMode' /\ ~offlineRef'
                   /\ storage'.kind = "ok"
                   /\ storage' # storage )

\* C19 as claimed: for every input r, BookDetails.handleRate issues an update
\* whose rating is r rounded and then clamped into [1,5].
C19_DetailRatingClamp ==
  \A t \in AllRateInputs :
    (detail.loaded /\ Len(sent) < MaxRequests)
      => ENABLED ( /\ DetailRate(t)
                   /\ Len(sent') = Len(sent) + 1
                   /\ sent'[Len(sent')].kind = "updateBook"
                   /\ sent'[Len(sent')].rating = RoundThenClamp(t) )

\* C20 as claimed: in every create or update request the client sends, the
\* rating is null or an integer from 1 to 5.
C20_RatingOnEveryWrite ==
  /\ \A k \in DOMAIN sent :
       (sent[k].pc = "pending" /\ sent[k].kind \in {"createBook", "updateBook"})
         => (sent[k].rating = NoRating \/ sent[k].rating \in 1..5)
  /\ \A m \in DOMAIN mutations :
       mutations[m].pc = "updateBook"
         => (mutations[m].payload.rating = NoRating
             \/ mutations[m].payload.rating \in 1..5)

\* C21: a toggle invoked twice on the same displayed book, both updates
\* succeeding, leaves the book as it was before the first invocation, whether
\* the second invocation saw the first response applied or not: when the later
\* of the two responses is applied, every displayed entry of that id equals
\* the book the first invocation was given.
C21_DoubleToggleRestores ==
  \A a, b \in 1..2 :
    (/\ Len(mutations) = 2
     /\ a # b
     /\ mutations[a].pc = "save"
     /\ mutations[b].pc = "updateBook"
     /\ mutations[1].op = mutations[2].op
     /\ mutations[1].op \in {"toggleRead", "toggleFavorite"}
     /\ mutations[2].book \in {mutations[1].book,
                                Updated(mutations[1].book, mutations[1].payload)}
     /\ books = mutations[a].next)
    => ENABLED (/\ MutationOk(b)
                /\ \A i \in DOMAIN books' :
                      books'[i].id = mutations[1].book.id => books'[i] = mutations[1].book)

\* C22: the payload of every update in flight carries every attribute of the
\* book (all but its id), each equal to the book's value except the one the
\* handler changes.
C22_PayloadCarriesEveryAttribute ==
  \A m \in DOMAIN mutations :
    mutations[m].pc = "updateBook" =>
      LET changed == CASE mutations[m].op = "toggleRead" -> "read"
                       [] mutations[m].op = "toggleFavorite" -> "favorite"
                       [] OTHER -> "rating"
      IN \A a \in DOMAIN mutations[m].book \ {"id"} :
           /\ a \in DOMAIN mutations[m].payload
           /\ a # changed => mutations[m].payload[a] = mutations[m].book[a]

\* n spaces
Spaces(n) == [k \in 1..n |-> " "]
\* t is s without its leading and trailing spaces
IsTrimOf(t, s) ==
  /\ t # <<>> => t[1] # " " /\ t[Len(t)] # " "
  /\ \E i, j \in 0..Len(s) : s = Spaces(i) \o t \o Spaces(j)
\* s has a character that is not a space
NonBlank(s) == \E k \in DOMAIN s : s[k] # " "
\* s is a decimal numeral between spaces
Numeric(s) ==
  \E t \in {SubSeq(s, i, j) : i, j \in DOMAIN s} :
    IsTrimOf(t, s) /\ t # <<>> /\ \A k \in DOMAIN t : t[k] \in DigitChars
ValidInputs(name, author, yearText) ==
  NonBlank(name) /\ NonBlank(author) /\ (~NonBlank(yearText) \/ Numeric(yearText))

\* C23: handleSubmit hands a payload to onSubmit exactly when the name and the
\* author are non-blank and the year text is blank or numeric, and the
\* payload's name and author are the inputs without surrounding spaces;
\* otherwise it records errors and hands over nothing.  On the screen, a press
\* of the submit button sends one request with that name and author when the
\* inputs are valid, and sends nothing and records the errors when not.
C23_ValidationBeforeRequest ==
  /\ \A name, author \in TextInputs, yearText \in YearInputs :
       LET r == handleSubmit(name, author, yearText)
       IN /\ r.errors = {} <=> ValidInputs(name, author, yearText)
          /\ r.errors = {} =>
               IsTrimOf(r.payload.name, name) /\ IsTrimOf(r.payload.author, author)
          /\ r.errors # {} => r.payload = NoPayload
  /\ (form.screen # "none" /\ canSubmit /\ Len(sent) < MaxRequests) =>
       ENABLED (/\ FormSubmit
                /\ IF ValidInputs(form.name, form.author, form.yearText)
                   THEN /\ Len(sent') = Len(sent) + 1
                        /\ IsTrimOf(sent'[Len(sent')].name, form.name)
                        /\ IsTrimOf(sent'[Len(sent')].author, form.author)
                        /\ form'.errors = {}
                   ELSE /\ sent' = sent
                        /\ form'.errors # {}
                        /\ ~form'.submitting)
\* a press of the submit button has recorded the error of a year text that is
\* not a number, and nothing was sent
C23_Witness ==
  /\ form.screen = "new"
  /\ form.errors = {"year"}
  /\ ~ValidInputs(form.name, form.author, form.yearText)
  /\ Len(form.name) > Len(BookText)
  /\ ~form.submitting
  /\ sent = <<>>

\* C24 as stated: for a 2xx response of a call that expects a body, request
\* returns the parsed JSON body.
C24_SuccessReturnsParsedBody ==
  (http.pc = "settled" /\ Ok(http.status) /\ http.expectsBody) =>
    /\ http.result.outcome = "returns"
    /\ http.result.value = http.body.value

\* C24: for a non-2xx response request throws one Error whose message is the
\* body's message field when the body is JSON with a non-empty message, and
\* otherwise the fallback naming the status; for a 2xx response it returns
\* without reading the body when no body is expected, returns the parsed body
\* when the body is JSON, and otherwise rejects with the parse error.
C24_ErrorMapping ==
  http.pc = "settled" =>
    LET r == http.result
        hasMessage == /\ http.body.parses
                      /\ "message" \in DOMAIN http.body.value
                      /\ http.body.value.message # ""
    IN /\ ~Ok(http.status) =>
            /\ r.outcome = "throws"
            /\ r.error = "Error"
            /\ hasMessage => r.message = http.body.value.message
            /\ ~hasMessage =>
                 r.message = "La requete a echoue avec le statut " \o ToString(http.status)
       /\ (Ok(http.status) /\ ~http.expectsBody) =>
            r.outcome = "returns" /\ r.value = NoValue /\ r.bodyReads = 0
       /\ (Ok(http.status) /\ http.expectsBody /\ http.body.parses) =>
            r.outcome = "returns" /\ r.value = http.body.value
       /\ (Ok(http.status) /\ http.expectsBody /\ ~http.body.parses) =>
            r.outcome = "throws" /\ r.error = "SyntaxError"
\* a 404 whose JSON body has an empty message has been turned into the fallback
C24_Witness ==
  /\ http.pc = "settled"
  /\ http.status = 404
  /\ http.body.parses
  /\ "message" \in DOMAIN http.body.value
  /\ http.result.outcome = "throws"
  /\ http.result.message = "La requete a echoue avec le statut 404"

\* C25: when the most recently issued loadBooks call has succeeded and an
\* earlier-issued call is the only one still awaiting getBooks, the response of
\* the earlier call, arriving last, does not replace the displayed response of
\* the most recently issued one.
C25_LastIssuedFetchWins ==
  \A f \in 1..MaxCalls, data \in Responses :
    LET g == Len(fetches)
    IN (/\ InFlight(f)
        /\ f < g
        /\ Saving(g)
        /\ \A h \in DOMAIN fetches : h # f => ~InFlight(h)
        /\ \A m \in DOMAIN mutations : ~Updating(m)
        /\ books = fetches[g].data)
       => ENABLED (GetBooksOk(f, data) /\ books' = fetches[g].data)

\* the themes carried by the books of a collection
CarriedThemes(data) == {data[i].theme : i \in DOMAIN data} \ {NoTheme}
\* a list in strictly ascending order: sorted and without duplicates
StrictlySorted(list) == \A i, j \in DOMAIN list : i < j => list[i] < list[j]

\* C26 as stated: after a successful fetch the known themes are exactly the
\* themes carried by the books of the resulting collection.
C26_ThemesFollowCollection ==
  \A data \in Responses :
    InFlight(1) =>
      ENABLED (GetBooksOk(1, data) /\ Range(availableThemes') = CarriedThemes(books'))

\* C26: after a successful fetch, an applied cache load or a list mutation,
\* the known themes are the previous ones together with the themes carried by
\* the resulting collection, sorted and without duplicates, and the list is
\* kept as it was when that adds nothing.
C26_ThemesAccumulate ==
  LET Synced == /\ Range(availableThemes') = Range(availableThemes) \cup CarriedThemes(books')
                /\ StrictlySorted(availableThemes')
                /\ CarriedThemes(books') \subseteq Range(availableThemes)
                     => availableThemes' = availableThemes
  IN /\ \A data \in Responses : InFlight(1) => ENABLED (GetBooksOk(1, data) /\ Synced)
     /\ Updating(1) => ENABLED (MutationOk(1) /\ Synced)
     /\ cacheRead.pc = "resolving" =>
          ENABLED (/\ CacheLoaded
                   /\ IF AppliesCache(cacheRead.result, canceled)
                      THEN Synced /\ books' = cacheRead.result.books
                      ELSE availableThemes' = availableThemes)
\* the fetch has succeeded and a known theme is carried by no displayed book
C26_Witness ==
  /\ fetches[1].pc \in {"save", "done"}
  /\ books # <<>>
  /\ \E t \in Range(availableThemes) : t \notin CarriedThemes(books)

C28_OfflineImpliesCache == offlineMode => hasLocalCacheRef

\* C29: the mount-time loadBooks call is the only live call of the run, it has
\* succeeded and the cache read has completed; when its cache write, the only
\* one of the run, lands, nothing is in flight any more and the persisted
\* snapshot's book list equals the displayed collection.
C29_SnapshotEqualsDisplay ==
  (/\ Len(fetches) = 1
   /\ Saving(1)
   /\ mutations = <<>>
   /\ cacheRead.pc = "done")
  => ENABLED (/\ SaveResolved(1, TRUE)
              /\ storage'.kind = "ok"
              /\ storage'.books = books')

\* C30: when the update of book b succeeds, the displayed collection keeps its
\* length and order, the entries whose id is b's become the returned book,
\* every other entry is unchanged, and a collection without an entry of that
\* id is left as it is.
C30_ReplaceByIdOnly ==
  Updating(1) =>
    LET b == mutations[1].book
        returned == Updated(b, mutations[1].payload)
    IN ENABLED (/\ MutationOk(1)
                /\ Len(books') = Len(books)
                /\ \A i \in DOMAIN books :
                     /\ books'[i].id = books[i].id
                     /\ books[i].id = b.id => books'[i] = returned
                     /\ books[i].id # b.id => books'[i] = books[i]
                /\ (\A i \in DOMAIN books : books[i].id # b.id) => books' = books)
\* an update has succeeded for a book the displayed collection, replaced by
\* the cache load meanwhile, has no entry of
C30_Witness ==
  /\ SavingMutation(1)
  /\ books = mutations[1].next
  /\ books # <<>>
  /\ \A i \in DOMAIN books : books[i].id # mutations[1].book.id

====
